---- MODULE Spec2Model ----
(***************************************************************************)
(* Model of the marketplace synchronisation scripts seller.py (offset/count *)
(* paged marketplace) and market.py (cursor paged marketplace, campaigns    *)
(* FBS and DBS).                                                            *)
(*                                                                          *)
(* Python str values are modelled as sequences of one-character strings,    *)
(* spreadsheet cells as tagged values (a str or an int), lists as           *)
(* sequences, dicts as records.                                             *)
(***************************************************************************)
EXTENDS Integers, Sequences, FiniteSets, TLC

VARIABLES
    \* ---- reconciliation functions called directly (ReconSpec)
    rc_remnants,    \* the watch_remnants argument
    rc_offer_ids,   \* the caller's offer_ids list object (create_stocks mutates it)
    rc_first,       \* the first call made and what it returned
    rc_second,      \* the second call made and what it returned
    \* ---- divide called directly (DivideSpec)
    dv_lst,         \* the lst argument
    dv_n,           \* the n argument
    dv_ret,         \* what list(divide(lst, n)) did
    \* ---- price_conversion called directly (ConvSpec)
    cv_price,       \* the price argument
    cv_ret,         \* what price_conversion(price) returned
    cv_again,       \* what price_conversion of that result returned
    \* ---- one run of main() of seller.py or of market.py (Spec)
    script,         \* "seller" or "market": the script whose main() runs
                    \* (UploadSpec: the upload_* coroutine that runs)
    pc,             \* the statement main() is at
    pair,           \* the account worked on: "OZON", or campaign "FBS" / "DBS"
    m_watch_remnants, \* what download_stock() returned
    page,           \* get_offer_ids: last_id (seller) or page (market)
    product_list,   \* get_offer_ids: offer ids of the products fetched so far
    some_prod,      \* get_offer_ids: the page get_product_list just returned
    m_offer_ids,      \* main's offer_ids list
    m_stocks,         \* main's stocks list
    m_prices,         \* main's prices list
    op,             \* the update function the running for loop calls
    batches,        \* the chunks the running for loop has not reached yet
    calls,          \* the update_stocks / update_price calls made, in order
    listing,        \* per pair: listing endpoint asked; offer ids returned
    coroutines,     \* coroutine objects created by calling upload_prices
    outcome,        \* what main() printed in an except clause
    failed          \* where the exception was raised

rc_vars == <<rc_remnants, rc_offer_ids, rc_first, rc_second>>
dv_vars == <<dv_lst, dv_n, dv_ret>>
cv_vars == <<cv_price, cv_ret, cv_again>>
main_vars == <<script, pc, pair, m_watch_remnants, page, product_list, some_prod,
               m_offer_ids, m_stocks, m_prices, op, batches, calls, listing,
               coroutines, outcome, failed>>
vars == <<rc_vars, dv_vars, cv_vars, main_vars>>

(***************************************************************************)
(* Bounds of the model.                                                     *)
(***************************************************************************)
\* longest supplier feed passed to the reconciliation functions
MaxRemnants == 2
\* longest list passed to divide
MaxLst == 4
\* largest absolute chunk size passed to divide
MaxN == 3
\* longest price text passed to price_conversion
MaxPrice == 4
\* longest supplier feed download_stock returns in a run of main
MaxFeed == 2
\* The caps main passes to divide, scaled down so that the catalogs of the
\* model fill more than one chunk: 100 and 900 in seller.main, 2000 in
\* market.main.
SellerStockCap == 1
SellerPriceCap == 3
MarketStockCap == 2
\* The caps the upload_prices coroutines pass to divide, scaled down likewise:
\* 1000 in seller.upload_prices, 500 in market.upload_prices.
SellerUploadPriceCap == 1
MarketPriceCap == 1

(***************************************************************************)
(* Python values.                                                           *)
(***************************************************************************)
DigitChars == <<"0", "1", "2", "3", "4", "5", "6", "7", "8", "9">>

IsDigit(c) == \E d \in 1..10 : DigitChars[d] = c

DigitVal(c) == (CHOOSE d \in 1..10 : DigitChars[d] = c) - 1

\* a spreadsheet cell read by pandas: a str or an int
StrCell(t) == [k |-> "str", s |-> t, i |-> 0]
IntCell(n) == [k |-> "int", s |-> <<>>, i |-> n]

RECURSIVE nat_text(_)
nat_text(n) ==
    IF n < 10 THEN <<DigitChars[n + 1]>>
    ELSE nat_text(n \div 10) \o <<DigitChars[(n % 10) + 1]>>

\* str(x) of a cell value
py_str(cell) ==
    IF cell.k = "str" THEN cell.s
    ELSE IF cell.i < 0 THEN <<"-">> \o nat_text(-cell.i)
    ELSE nat_text(cell.i)

RECURSIVE lstrip(_)
lstrip(t) == IF t # <<>> /\ Head(t) = " " THEN lstrip(Tail(t)) ELSE t

RECURSIVE rstrip(_)
rstrip(t) ==
    IF t # <<>> /\ t[Len(t)] = " " THEN rstrip(SubSeq(t, 1, Len(t) - 1)) ELSE t

RECURSIVE digits_value(_, _)
digits_value(t, acc) ==
    IF t = <<>> THEN acc
    ELSE digits_value(Tail(t), acc * 10 + DigitVal(Head(t)))

\* int(x): an int is returned as it is; a str is stripped of surrounding
\* blanks, may carry one sign and must then be decimal digits, else ValueError
\* (the texts of the model hold no "_" between digits and no blank but " ")
py_int(cell) ==
    IF cell.k = "int" THEN [raised |-> FALSE, val |-> cell.i]
    ELSE LET t == rstrip(lstrip(cell.s))
             signed == t # <<>> /\ Head(t) \in {"-", "+"}
             body == IF signed THEN Tail(t) ELSE t
             ok == body # <<>> /\ \A j \in 1..Len(body) : IsDigit(body[j])
         IN  IF ~ok THEN [raised |-> TRUE, val |-> 0]
             ELSE IF signed /\ Head(t) = "-"
                  THEN [raised |-> FALSE, val |-> -digits_value(body, 0)]
                  ELSE [raised |-> FALSE, val |-> digits_value(body, 0)]

\* x in lst
list_contains(lst, x) == \E j \in 1..Len(lst) : lst[j] = x

\* a remove that leaves the list as it was
list_remove_nothing(lst, x) == lst

\* lst.remove(x): drops the first occurrence of x
list_remove(lst, x) ==
    IF ~list_contains(lst, x) THEN lst
    ELSE LET j == CHOOSE j \in 1..Len(lst) :
                      lst[j] = x /\ \A h \in 1..(j - 1) : lst[h] # x
         IN  SubSeq(lst, 1, j - 1) \o SubSeq(lst, j + 1, Len(lst))

\* range(start, stop, step) as the list of its values; step 0 is a ValueError
py_range(start, stop, step) ==
    IF step = 0 THEN [raised |-> TRUE, values |-> <<>>]
    ELSE LET count ==
                 IF step > 0
                 THEN IF stop > start
                      THEN (stop - start + step - 1) \div step ELSE 0
                 ELSE IF start > stop
                      THEN (start - stop - step - 1) \div (-step) ELSE 0
         IN  [raised |-> FALSE,
              values |-> [k \in 1..count |-> start + (k - 1) * step]]

\* lst[i:j] with Python's clamping and negative indices
py_slice(lst, i, j) ==
    LET norm(x) == IF x < 0
                   THEN (IF Len(lst) + x < 0 THEN 0 ELSE Len(lst) + x)
                   ELSE (IF x > Len(lst) THEN Len(lst) ELSE x)
        a == norm(i)
        b == norm(j)
    IN  IF a < b THEN SubSeq(lst, a + 1, b) ELSE <<>>

(***************************************************************************)
(* seller.py / market.py: the pure functions.                               *)
(***************************************************************************)
TEN_PLUS == <<">", "1", "0">>
ONE == <<"1">>

\* a classification that counts a quantity int() rejects as zero
stock_of_zero_on_error(watch) ==
    LET count == py_str(watch.Kolichestvo)
        parsed == py_int(watch.Kolichestvo)
    IN  IF count = TEN_PLUS THEN [raised |-> FALSE, val |-> 100]
        ELSE IF count = ONE THEN [raised |-> FALSE, val |-> 0]
        ELSE IF parsed.raised THEN [raised |-> FALSE, val |-> 0]
        ELSE parsed

\* the stock computed for one matched record; raised: int() raised ValueError
stock_of(watch) ==
    LET count == py_str(watch.Kolichestvo)
    IN  IF count = TEN_PLUS THEN [raised |-> FALSE, val |-> 100]
        ELSE IF count = ONE THEN [raised |-> FALSE, val |-> 0]
        ELSE py_int(watch.Kolichestvo)

\* the record appended for an offer; shape.market tells the marketplace
stock_record(shape, offer_id, stock) ==
    IF shape.market
    THEN [sku |-> offer_id, warehouseId |-> shape.warehouse_id,
          items |-> <<[count |-> stock, type |-> "FIT",
                       updatedAt |-> shape.date]>>]
    ELSE [offer_id |-> offer_id, stock |-> stock]

\* a create_stocks that leaves out the offers no record of the feed named
zero_fill_nothing(shape, offer_ids, stocks) == stocks

RECURSIVE zero_fill(_, _, _)
zero_fill(shape, offer_ids, stocks) ==
    IF offer_ids = <<>> THEN stocks
    ELSE zero_fill(shape, Tail(offer_ids),
                   Append(stocks, stock_record(shape, Head(offer_ids), 0)))

\* the body of create_stocks: the pass over the feed, then the zero fill.
\* offer_ids in the result is the caller's list as the call leaves it.
RECURSIVE create_stocks_loop(_, _, _, _)
create_stocks_loop(shape, rest, offer_ids, stocks) ==
    IF rest = <<>>
    THEN [raised |-> FALSE, offer_ids |-> offer_ids,
          stocks |-> zero_fill(shape, offer_ids, stocks)]
    ELSE LET watch == Head(rest)
             code == py_str(watch.Kod)
         IN  IF ~list_contains(offer_ids, code)
             THEN create_stocks_loop(shape, Tail(rest), offer_ids, stocks)
             ELSE LET stock == stock_of(watch)
                  IN  IF stock.raised
                      THEN [raised |-> TRUE, offer_ids |-> offer_ids,
                            stocks |-> <<>>]
                      ELSE create_stocks_loop(
                               shape, Tail(rest),
                               list_remove(offer_ids, code),
                               Append(stocks,
                                      stock_record(shape, code, stock.val)))

seller_create_stocks(watch_remnants, offer_ids) ==
    create_stocks_loop([market |-> FALSE, warehouse_id |-> "", date |-> 0],
                       watch_remnants, offer_ids, <<>>)

market_create_stocks(watch_remnants, offer_ids, warehouse_id, date) ==
    create_stocks_loop([market |-> TRUE, warehouse_id |-> warehouse_id,
                        date |-> date],
                       watch_remnants, offer_ids, <<>>)

\* a split that cuts nothing off
before_dot_whole(t) == t

RECURSIVE before_dot(_)
before_dot(t) ==
    IF t = <<>> \/ Head(t) = "." THEN <<>>
    ELSE <<Head(t)>> \o before_dot(Tail(t))

RECURSIVE digits_only(_)
digits_only(t) ==
    IF t = <<>> THEN <<>>
    ELSE IF IsDigit(Head(t)) THEN <<Head(t)>> \o digits_only(Tail(t))
    ELSE digits_only(Tail(t))

\* re.sub("[^0-9]", "", price.split(".")[0]); a cell that is not a str has
\* no split and raises AttributeError
price_conversion(price) ==
    IF price.k # "str" THEN [raised |-> TRUE, text |-> <<>>]
    ELSE [raised |-> FALSE, text |-> digits_only(before_dot(price.s))]

RECURSIVE seller_create_prices_loop(_, _, _)
seller_create_prices_loop(rest, offer_ids, prices) ==
    IF rest = <<>> THEN [raised |-> FALSE, prices |-> prices]
    ELSE LET watch == Head(rest)
             code == py_str(watch.Kod)
         IN  IF ~list_contains(offer_ids, code)
             THEN seller_create_prices_loop(Tail(rest), offer_ids, prices)
             ELSE LET conv == price_conversion(watch.Tsena)
                  IN  IF conv.raised THEN [raised |-> TRUE, prices |-> <<>>]
                      ELSE seller_create_prices_loop(
                               Tail(rest), offer_ids,
                               Append(prices,
                                      [auto_action_enabled |-> "UNKNOWN",
                                       currency_code |-> "RUB",
                                       offer_id |-> code,
                                       old_price |-> <<"0">>,
                                       price |-> conv.text]))

seller_create_prices(watch_remnants, offer_ids) ==
    seller_create_prices_loop(watch_remnants, offer_ids, <<>>)

RECURSIVE market_create_prices_loop(_, _, _)
market_create_prices_loop(rest, offer_ids, prices) ==
    IF rest = <<>> THEN [raised |-> FALSE, prices |-> prices]
    ELSE LET watch == Head(rest)
             code == py_str(watch.Kod)
         IN  IF ~list_contains(offer_ids, code)
             THEN market_create_prices_loop(Tail(rest), offer_ids, prices)
             ELSE LET conv == price_conversion(watch.Tsena)
                      value == py_int(StrCell(conv.text))
                  IN  IF conv.raised \/ value.raised
                      THEN [raised |-> TRUE, prices |-> <<>>]
                      ELSE market_create_prices_loop(
                               Tail(rest), offer_ids,
                               Append(prices,
                                      [id |-> code,
                                       price |-> [value |-> value.val,
                                                  currencyId |-> "RUR"]]))

\* a create_prices that, like create_stocks, adds an update with a zero
\* amount for every offer no record of the feed names
market_create_prices_zero_fills(watch_remnants, offer_ids) ==
    LET r == market_create_prices_loop(watch_remnants, offer_ids, <<>>)
        Unnamed(id) ==
            \A j \in 1..Len(watch_remnants) :
                py_str(watch_remnants[j].Kod) # id
        rest == SelectSeq(offer_ids, Unnamed)
    IN  [raised |-> r.raised,
         prices |-> IF r.raised THEN <<>>
                    ELSE r.prices \o
                         [j \in 1..Len(rest) |->
                              [id |-> rest[j],
                               price |-> [value |-> 0,
                                          currencyId |-> "RUR"]]]]

market_create_prices(watch_remnants, offer_ids) ==
    market_create_prices_loop(watch_remnants, offer_ids, <<>>)

\* a divide that yields the chunks from the end of the list to its start
divide_from_the_end(lst, n) ==
    LET r == py_range(0, Len(lst), n)
        count == Len(r.values)
    IN  IF r.raised THEN [raised |-> TRUE, chunks |-> <<>>]
        ELSE [raised |-> FALSE,
              chunks |-> [k \in 1..count |->
                              py_slice(lst, r.values[count + 1 - k],
                                       r.values[count + 1 - k] + n)]]

\* a divide that hands the whole list over as one chunk
divide_as_one_chunk(lst, n) == [raised |-> FALSE, chunks |-> <<lst>>]

\* a divide whose range stops before a chunk shorter than n
divide_full_chunks_only(lst, n) ==
    LET r == py_range(0, Len(lst) - n + 1, n)
    IN  IF r.raised THEN [raised |-> TRUE, chunks |-> <<>>]
        ELSE [raised |-> FALSE,
              chunks |-> [k \in 1..Len(r.values) |->
                              py_slice(lst, r.values[k], r.values[k] + n)]]

\* list(divide(lst, n)): the generator run to its end.  raised: range()
\* raised ValueError at the first next()
divide(lst, n) ==
    LET r == py_range(0, Len(lst), n)
    IN  IF r.raised THEN [raised |-> TRUE, chunks |-> <<>>]
        ELSE [raised |-> FALSE,
              chunks |-> [k \in 1..Len(r.values) |->
                              py_slice(lst, r.values[k], r.values[k] + n)]]

(***************************************************************************)
(* Inputs the functions are called with.                                    *)
(***************************************************************************)
SeqsUpTo(S, n) == UNION {[1..m -> S] : m \in 0..n}

Range(s) == {s[j] : j \in 1..Len(s)}

Count(s, x) == Cardinality({j \in 1..Len(s) : s[j] = x})

\* lists without a repeated member
DistinctSeqs(S) ==
    {s \in SeqsUpTo(S, Cardinality(S)) :
         \A i, j \in 1..Len(s) : i # j => s[i] # s[j]}

\* the offers a marketplace account can list, in the order the listing
\* endpoint pages through them; an offer id is unique in its catalog
Catalog == << <<"7">>, <<"8">>, <<"9">> >>

OfferIds == {Catalog[j] : j \in 1..Len(Catalog)}

Row(code, quantity, price) ==
    [Kod |-> code, Kolichestvo |-> quantity, Tsena |-> price]

\* rows of the supplier's spreadsheet: codes and quantities stored as text or
\* as numbers, the same code twice, prices with blanks, a fraction, no digit
RowTenPlus ==
    Row(IntCell(7), StrCell(TEN_PLUS),
        StrCell(<<"1", " ", "5", "0", "0", ".", "5", "0">>))
RowOne == Row(StrCell(<<"7">>), StrCell(ONE), StrCell(<<>>))
RowNumeric == Row(StrCell(<<"8">>), IntCell(5), IntCell(990))
RowMalformed ==
    Row(StrCell(<<"8">>), StrCell(<<"a", "b", "c">>),
        StrCell(<<"2", ",", "3", "4", "5", ".", "6", "7">>))
RowNegative ==
    Row(StrCell(<<"9">>), StrCell(<<"-", "3">>),
        StrCell(<<"r", "u", "b", ".">>))

RowPlain ==
    Row(StrCell(<<"9">>), StrCell(<<"2", "4">>),
        StrCell(<<"1", " ", "5", "0", "0">>))

FeedRows ==
    {RowTenPlus, RowOne, RowNumeric, RowMalformed, RowNegative, RowPlain}

\* the rows of the feeds a run of main downloads
MainRows == {RowTenPlus, RowNumeric, RowMalformed}

\* values of datetime.utcnow() at a call
Dates == {0, 1}

\* members of the lists passed to divide
Items == {"x", "y"}

\* characters of the price texts passed to price_conversion
PriceChars == {"1", "0", ".", " ", "r"}

(***************************************************************************)
(* ReconSpec: create_stocks and create_prices called on a feed and on the   *)
(* caller's offer_ids list, at most twice on the same list object.          *)
(***************************************************************************)
NoCall == [fn |-> "none", k_in |-> <<>>, raised |-> FALSE, out |-> <<>>]

NotDivided == [called |-> FALSE, raised |-> FALSE, chunks |-> <<>>]

RcIdle ==
    /\ rc_remnants = <<>>
    /\ rc_offer_ids = <<>>
    /\ rc_first = NoCall
    /\ rc_second = NoCall

DvIdle ==
    /\ dv_lst = <<>>
    /\ dv_n = 1
    /\ dv_ret = NotDivided

NotConverted == [called |-> FALSE, raised |-> FALSE, text |-> <<>>]

CvIdle ==
    /\ cv_price = <<>>
    /\ cv_ret = NotConverted
    /\ cv_again = NotConverted

Pairs == {"OZON", "FBS", "DBS"}

NoPage == [items |-> <<>>, total |-> 0, last_id |-> "", nextPageToken |-> ""]

NotListed == [asked |-> FALSE, returned |-> FALSE, offer_ids |-> <<>>]

NoFailure == [pair |-> "", step |-> ""]

\* no script runs
MainIdle ==
    /\ script = "none"
    /\ pc = "done"
    /\ pair = ""
    /\ m_watch_remnants = <<>>
    /\ page = ""
    /\ product_list = <<>>
    /\ some_prod = NoPage
    /\ m_offer_ids = <<>>
    /\ m_stocks = <<>>
    /\ m_prices = <<>>
    /\ op = ""
    /\ batches = <<>>
    /\ calls = <<>>
    /\ listing = [p \in Pairs |-> NotListed]
    /\ coroutines = <<>>
    /\ outcome = ""
    /\ failed = NoFailure

ReconInit ==
    /\ rc_remnants \in SeqsUpTo(FeedRows, MaxRemnants)
    /\ rc_offer_ids \in DistinctSeqs(OfferIds)
    /\ rc_first = NoCall
    /\ rc_second = NoCall
    /\ DvIdle
    /\ CvIdle
    /\ MainIdle

\* the call is the first or the second one made on the list
Returns(c) ==
    /\ rc_second = NoCall
    /\ IF rc_first = NoCall
       THEN rc_first' = c /\ UNCHANGED rc_second
       ELSE rc_second' = c /\ UNCHANGED rc_first
    /\ UNCHANGED <<rc_remnants, dv_vars, cv_vars, main_vars>>

CallSellerCreateStocks ==
    LET r == seller_create_stocks(rc_remnants, rc_offer_ids)
    IN  /\ Returns([fn |-> "seller.create_stocks", k_in |-> rc_offer_ids,
                    raised |-> r.raised, out |-> r.stocks])
        /\ rc_offer_ids' = r.offer_ids

CallMarketCreateStocks ==
    \E date \in Dates :
        LET r == market_create_stocks(rc_remnants, rc_offer_ids, "wh", date)
        IN  /\ Returns([fn |-> "market.create_stocks", k_in |-> rc_offer_ids,
                        raised |-> r.raised, out |-> r.stocks])
            /\ rc_offer_ids' = r.offer_ids

CallSellerCreatePrices ==
    LET r == seller_create_prices(rc_remnants, rc_offer_ids)
    IN  /\ Returns([fn |-> "seller.create_prices", k_in |-> rc_offer_ids,
                    raised |-> r.raised, out |-> r.prices])
        /\ UNCHANGED rc_offer_ids

CallMarketCreatePrices ==
    LET r == market_create_prices(rc_remnants, rc_offer_ids)
    IN  /\ Returns([fn |-> "market.create_prices", k_in |-> rc_offer_ids,
                    raised |-> r.raised, out |-> r.prices])
        /\ UNCHANGED rc_offer_ids

ReconNext ==
    \/ CallSellerCreateStocks
    \/ CallMarketCreateStocks
    \/ CallSellerCreatePrices
    \/ CallMarketCreatePrices

ReconSpec == ReconInit /\ [][ReconNext]_vars

(***************************************************************************)
(* DivideSpec: list(divide(lst, n)) called on a list and a chunk size.      *)
(***************************************************************************)
DivideInit ==
    /\ dv_lst \in SeqsUpTo(Items, MaxLst)
    /\ dv_n \in (-MaxN)..MaxN
    /\ dv_ret = NotDivided
    /\ RcIdle
    /\ CvIdle
    /\ MainIdle

CallDivide ==
    /\ ~dv_ret.called
    /\ LET r == divide(dv_lst, dv_n)
       IN  dv_ret' = [called |-> TRUE, raised |-> r.raised,
                      chunks |-> r.chunks]
    /\ UNCHANGED <<dv_lst, dv_n, rc_vars, cv_vars, main_vars>>

DivideNext == CallDivide

DivideSpec == DivideInit /\ [][DivideNext]_vars

(***************************************************************************)
(* ConvSpec: price_conversion called on a str, then on its own result.      *)
(***************************************************************************)
ConvInit ==
    /\ cv_price \in SeqsUpTo(PriceChars, MaxPrice)
    /\ cv_ret = NotConverted
    /\ cv_again = NotConverted
    /\ RcIdle
    /\ DvIdle
    /\ MainIdle

CallPriceConversion ==
    /\ ~cv_ret.called
    /\ LET r == price_conversion(StrCell(cv_price))
       IN  cv_ret' = [called |-> TRUE, raised |-> r.raised, text |-> r.text]
    /\ UNCHANGED <<cv_price, cv_again, rc_vars, dv_vars, main_vars>>

CallPriceConversionAgain ==
    /\ cv_ret.called /\ ~cv_ret.raised
    /\ ~cv_again.called
    /\ LET r == price_conversion(StrCell(cv_ret.text))
       IN  cv_again' = [called |-> TRUE, raised |-> r.raised, text |-> r.text]
    /\ UNCHANGED <<cv_price, cv_ret, rc_vars, dv_vars, main_vars>>

ConvNext ==
    \/ CallPriceConversion
    \/ CallPriceConversionAgain

ConvSpec == ConvInit /\ [][ConvNext]_vars

(***************************************************************************)
(* Properties of the functions.                                             *)
(***************************************************************************)
StockCalls == {"seller.create_stocks", "market.create_stocks"}

offer_id_of(fn, rec) ==
    IF fn = "market.create_stocks" THEN rec.sku ELSE rec.offer_id

count_of(fn, rec) ==
    IF fn = "market.create_stocks" THEN rec.items[1].count ELSE rec.stock

IdsOf(c) == [j \in 1..Len(c.out) |-> offer_id_of(c.fn, c.out[j])]

\* the updates of a stock list without the time stamp
StockView(c) ==
    [j \in 1..Len(c.out) |->
         <<offer_id_of(c.fn, c.out[j]), count_of(c.fn, c.out[j])>>]

RECURSIVE Concat(_)
Concat(chunks) ==
    IF chunks = <<>> THEN <<>> ELSE Head(chunks) \o Concat(Tail(chunks))

\* C1: the list create_stocks returns holds every offer id of the list it
\* was passed exactly once and no other id, for both marketplaces and
\* whatever the feed
C1_StockIdsAreExactlyKnownOffers ==
    \A c \in {rc_first, rc_second} :
        (c.fn \in StockCalls /\ ~c.raised) =>
            /\ \A id \in Range(c.k_in) : Count(IdsOf(c), id) = 1
            /\ \A id \in Range(IdsOf(c)) : id \in Range(c.k_in)

\* a feed naming one known offer twice, another known offer left unmatched,
\* reconciled by both marketplaces' create_stocks
C1_Witness ==
    /\ rc_first.fn = "seller.create_stocks" /\ ~rc_first.raised
    /\ rc_second.fn = "market.create_stocks" /\ ~rc_second.raised
    /\ Len(rc_first.k_in) = 3
    /\ Len(rc_remnants) = 2
    /\ py_str(rc_remnants[1].Kod) = py_str(rc_remnants[2].Kod)
    /\ py_str(rc_remnants[1].Kod) \in Range(rc_first.k_in)
    /\ Len(rc_second.out) = 2

\* C4: a second create_stocks call on the same feed and the same offer_ids
\* list returns what the first call returned
C4_SecondCallIdentical ==
    (rc_first.fn \in StockCalls /\ rc_second.fn = rc_first.fn) =>
        /\ rc_second.raised = rc_first.raised
        /\ StockView(rc_second) = StockView(rc_first)

\* C6: divide fails for every n <= 0
C6_DivideRejectsNonPositive ==
    (dv_ret.called /\ dv_n <= 0) => dv_ret.raised

\* C7: for n >= 1 the chunks of divide concatenate to lst, every chunk but
\* the last has length n, the last has length 1..n, an empty lst has none
C7_DivideChunks ==
    (dv_ret.called /\ dv_n >= 1) =>
        LET chunks == dv_ret.chunks
        IN  /\ ~dv_ret.raised
            /\ Concat(chunks) = dv_lst
            /\ \A k \in 1..(Len(chunks) - 1) : Len(chunks[k]) = dv_n
            /\ chunks # <<>> =>
                   Len(chunks[Len(chunks)]) \in 1..dv_n
            /\ dv_lst = <<>> => chunks = <<>>

\* a list cut into full chunks and a shorter last one
C7_Witness ==
    /\ dv_ret.called /\ ~dv_ret.raised
    /\ dv_n >= 2
    /\ Len(dv_ret.chunks) >= 2
    /\ Len(dv_ret.chunks[Len(dv_ret.chunks)]) < dv_n

\* the offers of K named by the code of some record of the feed
Matched(K, R) ==
    {id \in Range(K) : \E j \in 1..Len(R) : py_str(R[j].Kod) = id}

\* the part of a text that precedes its first "."
PrefixBeforeDot(raw) ==
    LET dots == {j \in 1..Len(raw) : raw[j] = "."}
        first == IF dots = {} THEN Len(raw) + 1
                 ELSE CHOOSE j \in dots : \A h \in dots : j <= h
    IN  SubSeq(raw, 1, first - 1)

\* the decimal digits of a text, in their order
DigitsOf(t) == SelectSeq(t, IsDigit)

\* C14: price_conversion(raw) is the decimal digits of the part of raw before
\* its first ".", in their order: digits only, empty when that part has no
\* digit, and a fixed point of price_conversion
C14_PriceConversionDigitsBeforeDot ==
    cv_ret.called =>
        /\ ~cv_ret.raised
        /\ cv_ret.text = DigitsOf(PrefixBeforeDot(cv_price))
        /\ \A j \in 1..Len(cv_ret.text) : IsDigit(cv_ret.text[j])
        /\ (\A j \in 1..Len(PrefixBeforeDot(cv_price)) :
                ~IsDigit(PrefixBeforeDot(cv_price)[j])) => cv_ret.text = <<>>
        /\ cv_again.called =>
               (~cv_again.raised /\ cv_again.text = cv_ret.text)

\* a price with a blank and a digit before its ".", and a digit after it,
\* normalised twice
C14_Witness ==
    /\ cv_again.called
    /\ cv_ret.text # <<>>
    /\ \E j \in 1..Len(cv_price) : cv_price[j] = "."
    /\ \E j \in 1..Len(PrefixBeforeDot(cv_price)) : cv_price[j] = " "
    /\ IsDigit(cv_price[Len(cv_price)])

\* a text that is a base-10 integer: an optional sign, then digits only
IsIntegerText(t) ==
    LET body == IF t # <<>> /\ t[1] \in {"-", "+"} THEN Tail(t) ELSE t
    IN  body # <<>> /\ \A j \in 1..Len(body) : IsDigit(body[j])

\* the integer such a text denotes
IntegerOf(t) ==
    LET body == IF t[1] \in {"-", "+"} THEN Tail(t) ELSE t
        Pow10[e \in 0..Len(body)] == IF e = 0 THEN 1 ELSE 10 * Pow10[e - 1]
        Sum[j \in 0..Len(body)] ==
            IF j = 0 THEN 0
            ELSE Sum[j - 1] + DigitVal(body[j]) * Pow10[Len(body) - j]
    IN  IF t[1] = "-" THEN -Sum[Len(body)] ELSE Sum[Len(body)]

\* the quantity rules of the specification, in their order
Classifiable(t) == t = TEN_PLUS \/ t = ONE \/ IsIntegerText(t)

Classify(t) ==
    IF t = TEN_PLUS THEN 100 ELSE IF t = ONE THEN 0 ELSE IntegerOf(t)

QuantityText(watch) == py_str(watch.Kolichestvo)

\* the records of the feed a create_stocks call classifies when none fails:
\* those whose code is in the list passed and is not the code of an earlier
\* record
FirstMatches(c) ==
    {j \in 1..Len(rc_remnants) :
         /\ py_str(rc_remnants[j].Kod) \in Range(c.k_in)
         /\ \A h \in 1..(j - 1) :
                py_str(rc_remnants[h].Kod) # py_str(rc_remnants[j].Kod)}

\* the counts a stock list gives for an offer
CountsFor(c, id) ==
    {count_of(c.fn, c.out[j]) :
         j \in {h \in 1..Len(c.out) : offer_id_of(c.fn, c.out[h]) = id}}

\* C12: create_stocks classifies the quantity of a record by the rules in
\* their order (">10" is 100, "1" is 0, another base-10 integer is itself),
\* and fails, without emitting a zero, exactly when a quantity it classifies
\* is none of these
C12_QuantityClassification ==
    \A c \in {rc_first, rc_second} :
        c.fn \in StockCalls =>
            /\ c.raised <=>
                   \E j \in FirstMatches(c) :
                       ~Classifiable(QuantityText(rc_remnants[j]))
            /\ ~c.raised =>
                   \A j \in FirstMatches(c) :
                       CountsFor(c, py_str(rc_remnants[j].Kod))
                           = {Classify(QuantityText(rc_remnants[j]))}

\* a feed with a ">10" and with a plain integer text, classified
C12_Witness ==
    /\ rc_first.fn \in StockCalls /\ ~rc_first.raised
    /\ Cardinality(FirstMatches(rc_first)) = 2
    /\ \E j \in FirstMatches(rc_first) :
           QuantityText(rc_remnants[j]) = TEN_PLUS
    /\ \E j \in FirstMatches(rc_first) :
           /\ rc_remnants[j].Kolichestvo.k = "str"
           /\ IsIntegerText(QuantityText(rc_remnants[j]))
           /\ QuantityText(rc_remnants[j]) # ONE

\* the first record of the feed whose code is id
FirstRecord(R, id) ==
    CHOOSE j \in 1..Len(R) :
        /\ py_str(R[j].Kod) = id
        /\ \A h \in 1..(j - 1) : py_str(R[h].Kod) # id

\* C13: the count emitted for a matched offer is the classification of the
\* first record of the feed (in feed order) whose code is the offer id, and
\* every known offer no record names is emitted with count 0
C13_FirstRecordCountsRestZero ==
    \A c \in {rc_first, rc_second} :
        (c.fn \in StockCalls /\ ~c.raised) =>
            /\ \A id \in Matched(c.k_in, rc_remnants) :
                   CountsFor(c, id)
                       = {Classify(QuantityText(
                              rc_remnants[FirstRecord(rc_remnants, id)]))}
            /\ \A id \in Range(c.k_in) \ Matched(c.k_in, rc_remnants) :
                   CountsFor(c, id) = {0}

\* three known offers and a feed naming one of them twice, with different
\* quantities: the first record counts, the two other offers get 0
C13_Witness ==
    /\ rc_first.fn \in StockCalls /\ ~rc_first.raised
    /\ Len(rc_first.k_in) = 3
    /\ Len(rc_remnants) = 2
    /\ py_str(rc_remnants[1].Kod) = py_str(rc_remnants[2].Kod)
    /\ QuantityText(rc_remnants[1]) = TEN_PLUS
    /\ QuantityText(rc_remnants[2]) = ONE
    /\ Cardinality(Range(rc_first.k_in)
                       \ Matched(rc_first.k_in, rc_remnants)) = 2

PriceCalls == {"seller.create_prices", "market.create_prices"}

\* the records of the feed a create_prices call matches
PriceMatches(c) ==
    {j \in 1..Len(rc_remnants) : py_str(rc_remnants[j].Kod) \in Range(c.k_in)}

\* a price text that is empty or has no digit at all
NoAmountText(cell) == cell.k = "str" /\ DigitsOf(cell.s) = <<>>

\* a price update of the list carries an empty / zero amount for offer id
EmptyAmountFor(c, id) ==
    \E j \in 1..Len(c.out) :
        IF c.fn = "market.create_prices"
        THEN c.out[j].id = id /\ c.out[j].price.value = 0
        ELSE c.out[j].offer_id = id /\ c.out[j].price = <<>>

\* C15: a matched record whose price text is empty or has no digit does not
\* make create_prices fail: the call returns and its list carries an update
\* with an empty / zero amount for that record's offer (feeds whose matched
\* prices are all str)
C15_EmptyPriceIsNoError ==
    \A c \in {rc_first, rc_second} :
        (/\ c.fn \in PriceCalls
         /\ \A j \in PriceMatches(c) : rc_remnants[j].Tsena.k = "str") =>
            \A j \in PriceMatches(c) :
                NoAmountText(rc_remnants[j].Tsena) =>
                    /\ ~c.raised
                    /\ EmptyAmountFor(c, py_str(rc_remnants[j].Kod))

\* the offer id and the amount of a price update; the market amount is an
\* int, the seller amount a text
PriceView(c) ==
    [j \in 1..Len(c.out) |->
         IF c.fn = "market.create_prices"
         THEN <<c.out[j].id, c.out[j].price.value>>
         ELSE <<c.out[j].offer_id, c.out[j].price>>]

\* the normalized price of a record, as the marketplace of the call carries it
NormalizedPrice(c, watch) ==
    LET text == DigitsOf(PrefixBeforeDot(watch.Tsena.s))
    IN  IF c.fn = "market.create_prices" THEN IntegerOf(text) ELSE text

OutIds(c) ==
    IF c.fn \in StockCalls THEN IdsOf(c)
    ELSE [j \in 1..Len(c.out) |-> PriceView(c)[j][1]]

\* C21: no offer id appears more than once in the list create_stocks or
\* create_prices returns, also when the feed carries two or more records
\* with the same code
C21_RepeatedCodeOneUpdate ==
    \A c \in {rc_first, rc_second} :
        (c.fn \in StockCalls \cup PriceCalls /\ ~c.raised) =>
            \A id \in Range(OutIds(c)) : Count(OutIds(c), id) = 1

\* C23: every count of a list create_stocks returns is a non-negative
\* integer, whatever quantity texts the call accepted
C23_CountsNonNegative ==
    \A c \in {rc_first, rc_second} :
        (c.fn \in StockCalls /\ ~c.raised) =>
            \A j \in 1..Len(c.out) : count_of(c.fn, c.out[j]) \in Nat

(***************************************************************************)
(* Spec: one run of main() of seller.py or of market.py against a listing   *)
(* endpoint and update endpoints that answer as they please.                *)
(***************************************************************************)
\* exceptions a requests call raises (raise_for_status raises HTTPError)
NetErrors == {"ReadTimeout", "ConnectionError", "HTTPError"}

\* values of last_id / nextPageToken in a page; "" is the empty token
Tokens == {"", "p1", "p2"}

\* the offers of the catalog after the last one of lst
NotYetListed(lst) ==
    LET last == IF lst = <<>> THEN 0
                ELSE CHOOSE j \in 1..Len(Catalog) : Catalog[j] = lst[Len(lst)]
    IN  (last + 1)..Len(Catalog)

\* what a page can hold: offers not listed before, in catalog order
PageItems(lst) ==
    {LET Chosen(id) == \E j \in I : Catalog[j] = id
     IN  SelectSeq(Catalog, Chosen) : I \in SUBSET NotYetListed(lst)}

\* the "result" objects get_product_list can return
ResultPages(scr, lst) ==
    IF scr = "seller"
    THEN [items : PageItems(lst), total : 0..Len(Catalog), last_id : Tokens,
          nextPageToken : {""}]
    ELSE [items : PageItems(lst), total : {0}, last_id : {""},
          nextPageToken : Tokens]

\* a loop that also ends when more items than the total were accumulated
seller_loop_ends_at_or_above(total, lst) == total <= Len(lst)

\* seller.get_offer_ids: if total == len(product_list): break
seller_loop_ends(total, lst) == total = Len(lst)

\* market.get_offer_ids: if not page: break
market_loop_ends(token) == token = ""

\* the except clause of main that catches exc, by what it prints
except_clause(exc) ==
    IF exc = "ReadTimeout" THEN "timeout"
    ELSE IF exc = "ConnectionError" THEN "connection"
    ELSE "ERROR_2"

\* the pair named by the text an except clause prints.  The ReadTimeout
\* clause prints a literal; the two other clauses print str(error), which
\* carries the URL of the request when a request raised the error, and only
\* the rejected literal when int() or split() raised it
printed_context(o, step, p) ==
    IF o = "timeout" THEN ""
    ELSE IF step \in {"create_stocks", "create_prices"} THEN ""
    ELSE p

\* an except clause after which main carries on with the statement that
\* follows the failed enumeration or reconciliation
except_resume(step) ==
    IF step = "get_offer_ids" THEN "create_stocks"
    ELSE IF step = "create_stocks" THEN "for_update"
    ELSE "done"

\* an except clause inside the for loop: the loop goes on with the next chunk
except_next_chunk(step) ==
    IF step \in {"update_stocks", "update_price"} THEN "for_update" ELSE "done"

\* the statement main is at after an except clause: main returns
except_exit(step) == "done"

\* the chunk size main passes to divide
stock_cap(scr) == IF scr = "seller" THEN SellerStockCap ELSE MarketStockCap

warehouse_of(campaign) ==
    IF campaign = "FBS" THEN "WAREHOUSE_FBS_ID" ELSE "WAREHOUSE_DBS_ID"

\* a main that enumerates the pair once more after a for loop
after_for_enumerates_again(scr, update) == "get_offer_ids"

\* the statement after the for loop over the chunks of an update
after_for(scr, update) ==
    IF scr = "market" THEN "upload_prices"
    ELSE IF update = "update_stocks" THEN "create_prices"
    ELSE "done"

Init ==
    /\ script \in {"seller", "market"}
    /\ pc = IF script = "seller" THEN "get_offer_ids" ELSE "download_stock"
    /\ pair = IF script = "seller" THEN "OZON" ELSE "FBS"
    /\ m_watch_remnants = <<>>
    /\ page = ""
    /\ product_list = <<>>
    /\ some_prod = NoPage
    /\ m_offer_ids = <<>>
    /\ m_stocks = <<>>
    /\ m_prices = <<>>
    /\ op = ""
    /\ batches = <<>>
    /\ calls = <<>>
    /\ listing = [p \in Pairs |-> NotListed]
    /\ coroutines = <<>>
    /\ outcome = ""
    /\ failed = NoFailure
    /\ RcIdle
    /\ DvIdle
    /\ CvIdle

\* an exception raised inside the try block of main
Raise(exc, step) ==
    /\ outcome' = except_clause(exc)
    /\ failed' = [pair |-> pair, step |-> step]
    /\ pc' = except_exit(step)

\* get_offer_ids is entered for a pair
EnterGetOfferIds(p) ==
    /\ pair' = p
    /\ page' = ""
    /\ product_list' = <<>>
    /\ pc' = "get_offer_ids"

\* download_stock(): inside the try block in seller.main, before it in
\* market.main, where an exception leaves main uncaught
DownloadStock ==
    /\ pc = "download_stock"
    /\ UNCHANGED <<rc_vars, dv_vars, cv_vars>>
    /\ \E feed \in SeqsUpTo(MainRows, MaxFeed) :
           /\ m_watch_remnants' = feed
           /\ IF script = "seller"
              THEN pc' = "create_stocks" /\ UNCHANGED <<pair, page, product_list>>
              ELSE EnterGetOfferIds("FBS")
    /\ UNCHANGED <<script, some_prod, m_offer_ids, m_stocks, m_prices, op,
                   batches, calls, listing, coroutines, outcome, failed>>

DownloadStockRaises ==
    /\ pc = "download_stock"
    /\ UNCHANGED <<rc_vars, dv_vars, cv_vars>>
    /\ \E exc \in NetErrors :
           IF script = "seller"
           THEN Raise(exc, "download_stock")
           ELSE /\ outcome' = "uncaught"
                /\ failed' = [pair |-> "", step |-> "download_stock"]
                /\ pc' = "done"
    /\ UNCHANGED <<script, pair, m_watch_remnants, page, product_list,
                   some_prod, m_offer_ids, m_stocks, m_prices, op, batches,
                   calls, listing, coroutines>>

\* get_product_list(page, ...) returns a page
GetProductList ==
    /\ pc = "get_offer_ids"
    /\ UNCHANGED <<rc_vars, dv_vars, cv_vars>>
    /\ \E result \in ResultPages(script, product_list) : some_prod' = result
    /\ listing' = [listing EXCEPT ![pair].asked = TRUE]
    /\ pc' = "extend"
    /\ UNCHANGED <<script, pair, m_watch_remnants, page, product_list,
                   m_offer_ids, m_stocks, m_prices, op, batches, calls,
                   coroutines, outcome, failed>>

GetProductListRaises ==
    /\ pc = "get_offer_ids"
    /\ UNCHANGED <<rc_vars, dv_vars, cv_vars>>
    /\ \E exc \in NetErrors : Raise(exc, "get_offer_ids")
    /\ listing' = [listing EXCEPT ![pair].asked = TRUE]
    /\ UNCHANGED <<script, pair, m_watch_remnants, page, product_list,
                   some_prod, m_offer_ids, m_stocks, m_prices, op, batches,
                   calls, coroutines>>

\* the rest of the loop body of get_offer_ids and, when the loop ends, the
\* return of the offer ids
ExtendProductList ==
    /\ pc = "extend"
    /\ UNCHANGED <<rc_vars, dv_vars, cv_vars>>
    /\ LET lst == product_list \o some_prod.items
           token == IF script = "seller" THEN some_prod.last_id
                    ELSE some_prod.nextPageToken
           ends == IF script = "seller"
                   THEN seller_loop_ends(some_prod.total, lst)
                   ELSE market_loop_ends(token)
       IN  /\ product_list' = lst
           /\ page' = token
           /\ IF ends
              THEN /\ m_offer_ids' = lst
                   /\ listing' = [listing EXCEPT ![pair].returned = TRUE,
                                                 ![pair].offer_ids = lst]
                   /\ pc' = IF script = "seller" THEN "download_stock"
                            ELSE "create_stocks"
              ELSE /\ pc' = "get_offer_ids"
                   /\ UNCHANGED <<m_offer_ids, listing>>
    /\ UNCHANGED <<script, pair, m_watch_remnants, some_prod, m_stocks,
                   m_prices, op, batches, calls, coroutines, outcome, failed>>

\* stocks = create_stocks(...) and the list(divide(stocks, cap)) of the for
CreateStocks ==
    /\ pc = "create_stocks"
    /\ UNCHANGED <<rc_vars, dv_vars, cv_vars>>
    /\ \E date \in (IF script = "market" THEN Dates ELSE {0}) :
           LET r == IF script = "seller"
                    THEN seller_create_stocks(m_watch_remnants, m_offer_ids)
                    ELSE market_create_stocks(m_watch_remnants, m_offer_ids,
                                              warehouse_of(pair), date)
               d == divide(r.stocks, stock_cap(script))
           IN  /\ m_offer_ids' = r.offer_ids
               /\ IF r.raised \/ d.raised
                  THEN /\ Raise("ValueError", "create_stocks")
                       /\ UNCHANGED <<m_stocks, op, batches>>
                  ELSE /\ m_stocks' = r.stocks
                       /\ op' = "update_stocks"
                       /\ batches' = d.chunks
                       /\ pc' = "for_update"
                       /\ UNCHANGED <<outcome, failed>>
    /\ UNCHANGED <<script, pair, m_watch_remnants, page, product_list,
                   some_prod, m_prices, calls, listing, coroutines>>

\* seller.main: prices = create_prices(watch_remnants, offer_ids) and the
\* list(divide(prices, cap)) of the for
CreatePrices ==
    /\ pc = "create_prices"
    /\ UNCHANGED <<rc_vars, dv_vars, cv_vars>>
    /\ LET r == seller_create_prices(m_watch_remnants, m_offer_ids)
           d == divide(r.prices, SellerPriceCap)
       IN  IF r.raised \/ d.raised
           THEN /\ Raise("AttributeError", "create_prices")
                /\ UNCHANGED <<m_prices, op, batches>>
           ELSE /\ m_prices' = r.prices
                /\ op' = "update_price"
                /\ batches' = d.chunks
                /\ pc' = "for_update"
                /\ UNCHANGED <<outcome, failed>>
    /\ UNCHANGED <<script, pair, m_watch_remnants, page, product_list,
                   some_prod, m_offer_ids, m_stocks, calls, listing,
                   coroutines>>

\* one pass of the for loop: update_stocks / update_price of the next chunk
Update ==
    /\ pc = "for_update"
    /\ UNCHANGED <<rc_vars, dv_vars, cv_vars>>
    /\ batches # <<>>
    /\ calls' = Append(calls, [pair |-> pair, op |-> op,
                               batch |-> Head(batches), ok |-> TRUE])
    /\ batches' = Tail(batches)
    /\ UNCHANGED <<script, pc, pair, m_watch_remnants, page, product_list,
                   some_prod, m_offer_ids, m_stocks, m_prices, op, listing,
                   coroutines, outcome, failed>>

UpdateRaises ==
    /\ pc = "for_update"
    /\ UNCHANGED <<rc_vars, dv_vars, cv_vars>>
    /\ batches # <<>>
    /\ calls' = Append(calls, [pair |-> pair, op |-> op,
                               batch |-> Head(batches), ok |-> FALSE])
    /\ batches' = Tail(batches)
    /\ \E exc \in NetErrors : Raise(exc, op)
    /\ UNCHANGED <<script, pair, m_watch_remnants, page, product_list,
                   some_prod, m_offer_ids, m_stocks, m_prices, op, listing,
                   coroutines>>

\* the for loop has no chunk left
ForEnds ==
    /\ pc = "for_update"
    /\ UNCHANGED <<rc_vars, dv_vars, cv_vars>>
    /\ batches = <<>>
    /\ pc' = after_for(script, op)
    /\ UNCHANGED <<script, pair, m_watch_remnants, page, product_list,
                   some_prod, m_offer_ids, m_stocks, m_prices, op, batches,
                   calls, listing, coroutines, outcome, failed>>

\* market.main: upload_prices(watch_remnants, campaign, token).  upload_prices
\* is a coroutine function and the call is not awaited: it returns a
\* coroutine object and runs nothing of the body
UploadPrices ==
    /\ pc = "upload_prices"
    /\ UNCHANGED <<rc_vars, dv_vars, cv_vars>>
    /\ coroutines' = Append(coroutines, pair)
    /\ IF pair = "FBS"
       THEN EnterGetOfferIds("DBS")
       ELSE pc' = "done" /\ UNCHANGED <<pair, page, product_list>>
    /\ UNCHANGED <<script, m_watch_remnants, some_prod, m_offer_ids, m_stocks,
                   m_prices, op, batches, calls, listing, outcome, failed>>

Next ==
    \/ DownloadStock
    \/ DownloadStockRaises
    \/ GetProductList
    \/ GetProductListRaises
    \/ ExtendProductList
    \/ CreateStocks
    \/ CreatePrices
    \/ Update
    \/ UpdateRaises
    \/ ForEnds
    \/ UploadPrices

Spec == Init /\ [][Next]_vars

\* the interpreter keeps running main: a statement that can run does run
FairSpec == Spec /\ WF_vars(Next)

(***************************************************************************)
(* UploadSpec: one of the coroutines upload_prices / upload_stocks of       *)
(* seller.py or market.py, awaited by a caller with a feed and the          *)
(* credentials of one pair, run to its return or to the exception it lets   *)
(* through to the caller.                                                   *)
(***************************************************************************)
UploadFns ==
    {"seller.upload_prices", "seller.upload_stocks",
     "market.upload_prices", "market.upload_stocks"}

\* the pairs whose credentials the coroutine can be passed
pairs_of(fn) ==
    IF fn \in {"seller.upload_prices", "seller.upload_stocks"}
    THEN {"OZON"} ELSE {"FBS", "DBS"}

\* the update function of the coroutine's for loop
update_of(fn) ==
    IF fn \in {"seller.upload_prices", "market.upload_prices"}
    THEN "update_price" ELSE "update_stocks"

\* the chunk size the coroutine passes to divide
upload_cap(fn) ==
    IF fn = "seller.upload_prices" THEN SellerUploadPriceCap
    ELSE IF fn = "seller.upload_stocks" THEN SellerStockCap
    ELSE IF fn = "market.upload_prices" THEN MarketPriceCap
    ELSE MarketStockCap

UploadInit ==
    /\ script \in UploadFns
    /\ pair \in pairs_of(script)
    /\ m_watch_remnants \in SeqsUpTo(MainRows, MaxFeed)
    /\ pc = "up_get_offer_ids"
    /\ page = ""
    /\ product_list = <<>>
    /\ some_prod = NoPage
    /\ m_offer_ids = <<>>
    /\ m_stocks = <<>>
    /\ m_prices = <<>>
    /\ op = ""
    /\ batches = <<>>
    /\ calls = <<>>
    /\ listing = [p \in Pairs |-> NotListed]
    /\ coroutines = <<>>
    /\ outcome = ""
    /\ failed = NoFailure
    /\ RcIdle
    /\ DvIdle
    /\ CvIdle

\* an exception leaves the coroutine: it has no try block
UploadRaise(step) ==
    /\ outcome' = "raised"
    /\ failed' = [pair |-> pair, step |-> step]
    /\ pc' = "done"

\* offer_ids = get_offer_ids(...): the list the enumeration loop returns when
\* it ends (the loop itself is GetProductList / ExtendProductList)
UploadGetOfferIds ==
    /\ pc = "up_get_offer_ids"
    /\ UNCHANGED <<rc_vars, dv_vars, cv_vars>>
    /\ \E ids \in DistinctSeqs(OfferIds) :
           /\ m_offer_ids' = ids
           /\ listing' = [listing EXCEPT ![pair] =
                              [asked |-> TRUE, returned |-> TRUE,
                               offer_ids |-> ids]]
    /\ pc' = "up_create"
    /\ UNCHANGED <<script, pair, m_watch_remnants, page, product_list,
                   some_prod, m_stocks, m_prices, op, batches, calls,
                   coroutines, outcome, failed>>

UploadGetOfferIdsRaises ==
    /\ pc = "up_get_offer_ids"
    /\ UNCHANGED <<rc_vars, dv_vars, cv_vars>>
    /\ listing' = [listing EXCEPT ![pair].asked = TRUE]
    /\ UploadRaise("get_offer_ids")
    /\ UNCHANGED <<script, pair, m_watch_remnants, page, product_list,
                   some_prod, m_offer_ids, m_stocks, m_prices, op, batches,
                   calls, coroutines>>

\* prices = create_prices(...) or stocks = create_stocks(...), and the
\* list(divide(..., cap)) of the for
UploadCreate ==
    /\ pc = "up_create"
    /\ UNCHANGED <<rc_vars, dv_vars, cv_vars>>
    /\ \E date \in (IF script = "market.upload_stocks" THEN Dates ELSE {0}) :
           LET r == IF script = "seller.upload_prices"
                    THEN seller_create_prices(m_watch_remnants, m_offer_ids)
                    ELSE IF script = "market.upload_prices"
                    THEN market_create_prices(m_watch_remnants, m_offer_ids)
                    ELSE IF script = "seller.upload_stocks"
                    THEN seller_create_stocks(m_watch_remnants, m_offer_ids)
                    ELSE market_create_stocks(m_watch_remnants, m_offer_ids,
                                              warehouse_of(pair), date)
               prices == update_of(script) = "update_price"
               lst == IF r.raised THEN <<>>
                      ELSE IF prices THEN r.prices ELSE r.stocks
               d == divide(lst, upload_cap(script))
           IN  /\ m_offer_ids' = IF prices THEN m_offer_ids ELSE r.offer_ids
               /\ IF r.raised \/ d.raised
                  THEN /\ UploadRaise(IF prices THEN "create_prices"
                                      ELSE "create_stocks")
                       /\ UNCHANGED <<m_stocks, m_prices, op, batches>>
                  ELSE /\ m_prices' = IF prices THEN lst ELSE m_prices
                       /\ m_stocks' = IF prices THEN m_stocks ELSE lst
                       /\ op' = update_of(script)
                       /\ batches' = d.chunks
                       /\ pc' = "up_for"
                       /\ UNCHANGED <<outcome, failed>>
    /\ UNCHANGED <<script, pair, m_watch_remnants, page, product_list,
                   some_prod, calls, listing, coroutines>>

\* one pass of the coroutine's for loop
UploadUpdate ==
    /\ pc = "up_for"
    /\ UNCHANGED <<rc_vars, dv_vars, cv_vars>>
    /\ batches # <<>>
    /\ calls' = Append(calls, [pair |-> pair, op |-> op,
                               batch |-> Head(batches), ok |-> TRUE])
    /\ batches' = Tail(batches)
    /\ UNCHANGED <<script, pc, pair, m_watch_remnants, page, product_list,
                   some_prod, m_offer_ids, m_stocks, m_prices, op, listing,
                   coroutines, outcome, failed>>

UploadUpdateRaises ==
    /\ pc = "up_for"
    /\ UNCHANGED <<rc_vars, dv_vars, cv_vars>>
    /\ batches # <<>>
    /\ calls' = Append(calls, [pair |-> pair, op |-> op,
                               batch |-> Head(batches), ok |-> FALSE])
    /\ batches' = Tail(batches)
    /\ UploadRaise(op)
    /\ UNCHANGED <<script, pair, m_watch_remnants, page, product_list,
                   some_prod, m_offer_ids, m_stocks, m_prices, op, listing,
                   coroutines>>

\* the for loop has no chunk left: the coroutine returns its list(s)
UploadReturns ==
    /\ pc = "up_for"
    /\ UNCHANGED <<rc_vars, dv_vars, cv_vars>>
    /\ batches = <<>>
    /\ pc' = "done"
    /\ outcome' = "returned"
    /\ UNCHANGED <<script, pair, m_watch_remnants, page, product_list,
                   some_prod, m_offer_ids, m_stocks, m_prices, op, batches,
                   calls, listing, coroutines, failed>>

UploadNext ==
    \/ UploadGetOfferIds
    \/ UploadGetOfferIdsRaises
    \/ UploadCreate
    \/ UploadUpdate
    \/ UploadUpdateRaises
    \/ UploadReturns

UploadSpec == UploadInit /\ [][UploadNext]_vars

\* every way the update functions get called: a run of main, or one of the
\* upload coroutines awaited
SubmitInit == Init \/ UploadInit

SubmitNext == Next \/ UploadNext

SubmitSpec == SubmitInit /\ [][SubmitNext]_vars

(***************************************************************************)
(* Properties of a run of main.                                             *)
(***************************************************************************)
\* the update calls made for a pair through one update function
CallsOf(p, update) ==
    {j \in 1..Len(calls) : calls[j].pair = p /\ calls[j].op = update}

\* main returned without entering an except clause
FailureFree == pc = "done" /\ outcome = ""

price_id_of(rec) == IF script = "market" THEN rec.id ELSE rec.offer_id

\* the offers whose price was passed to update_price for a pair
PricedOffers(p) ==
    UNION {{price_id_of(calls[j].batch[h]) : h \in 1..Len(calls[j].batch)} :
               j \in CallsOf(p, "update_price")}

InGetOfferIds == pc \in {"get_offer_ids", "extend"}

\* C2: after a failure-free run of seller.main the prices passed to
\* update_price are those of exactly the offers of the enumerated catalog
\* that the feed names
C2_SellerPricesCoverMatchedOffers ==
    (script = "seller" /\ FailureFree) =>
        PricedOffers("OZON")
            = Matched(listing["OZON"].offer_ids, m_watch_remnants)

\* C3: when a failure-free market.main returns, update_price has been
\* called with the prices of every matched offer of FBS and of DBS
C3_MarketPricesSubmitted ==
    (script = "market" /\ FailureFree) =>
        \A p \in {"FBS", "DBS"} :
            PricedOffers(p) = Matched(listing[p].offer_ids, m_watch_remnants)

\* C5: get_offer_ids, once entered, is eventually left, whatever pages the
\* listing endpoint returns
C5_EnumerationTerminates == InGetOfferIds ~> ~InGetOfferIds

\* C8: a failure while market.main works on FBS does not keep it from
\* enumerating DBS in the same run
C8_FbsFailureLeavesDbsRunning ==
    (script = "market" /\ pc = "done" /\ failed.pair = "FBS") =>
        listing["DBS"].asked

\* C9: when enumeration or reconciliation of a pair fails, no update call
\* has been made for that pair, and none is made afterwards
C9_FailClosed ==
    failed.step \in {"get_offer_ids", "create_stocks", "create_prices"} =>
        \A j \in 1..Len(calls) : calls[j].pair # failed.pair

\* market.main aborted in the reconciliation of DBS, after the stocks of
\* FBS were submitted
C9_Witness ==
    /\ failed = [pair |-> "DBS", step |-> "create_stocks"]
    /\ pc = "done"
    /\ CallsOf("FBS", "update_stocks") # {}
    /\ listing["DBS"].offer_ids # <<>>

\* C10: of the calls of one update function for one pair, none follows a
\* failed one and no two carry the same batch
C10_NoRetryFailedBatchStops ==
    \A i, j \in 1..Len(calls) :
        (i < j /\ calls[i].pair = calls[j].pair /\ calls[i].op = calls[j].op)
            => (calls[i].ok /\ calls[i].batch # calls[j].batch)

\* a run whose second stock batch failed: the first batch stands, the third
\* was never submitted
C10_Witness ==
    /\ pc = "done"
    /\ Len(calls) = 2
    /\ calls[1].ok /\ ~calls[2].ok
    /\ calls[1].pair = calls[2].pair /\ calls[1].op = calls[2].op
    /\ batches # <<>>

\* the price sub-step of main was entered for pair p: seller.main called
\* create_prices, market.main called upload_prices
PriceStepEntered(p) ==
    \/ /\ script = "seller"
       /\ p = "OZON"
       /\ \/ op = "update_price"
          \/ failed.step \in {"create_prices", "update_price"}
    \/ /\ script = "market"
       /\ p \in Range(coroutines)

\* C11: when a stock batch submission fails for a pair, main still goes on
\* to the price submission of that pair (stated by what the price submission
\* needs first: the price sub-step of the pair is entered)
C11_StockFailureLeavesPriceStep ==
    (pc = "done" /\ failed.step = "update_stocks") =>
        PriceStepEntered(failed.pair)

\* C17: an aborted run reports one of the three error kinds, and what it
\* reports names the pair whose work was aborted
C17_OutcomeNamesAbortedPair ==
    (pc = "done" /\ failed.pair # "") =>
        /\ outcome \in {"timeout", "connection", "ERROR_2"}
        /\ printed_context(outcome, failed.step, failed.pair) = failed.pair

\* the cap stated for a submission, by who submits and through which update
\* function
StatedCap(scr, update) ==
    IF scr = "seller"
    THEN IF update = "update_stocks" THEN SellerStockCap ELSE SellerPriceCap
    ELSE IF scr = "seller.upload_prices" THEN SellerUploadPriceCap
    ELSE IF scr = "seller.upload_stocks" THEN SellerStockCap
    ELSE IF update = "update_stocks" THEN MarketStockCap
    ELSE MarketPriceCap

\* C18: every update_stocks / update_price call, made by main or by an
\* upload coroutine, carries a batch that is not empty and not longer than
\* the cap of its marketplace and operation
C18_BatchWithinCap ==
    \A j \in 1..Len(calls) :
        Len(calls[j].batch) \in 1..StatedCap(script, calls[j].op)

\* market.upload_prices submitted more prices than its cap, in two full
\* batches
C18_Witness ==
    /\ script = "market.upload_prices"
    /\ pc = "done" /\ outcome = "returned"
    /\ Len(m_prices) > MarketPriceCap
    /\ Len(calls) >= 2
    /\ \A j \in 1..Len(calls) :
           calls[j].op = "update_price" /\ Len(calls[j].batch) = MarketPriceCap

\* a step that requests a page of the listing endpoint
ListingCall == pc = "get_offer_ids" /\ pc' # pc

\* a step that calls update_stocks or update_price
SubmissionCall == calls' # calls

\* the list the reconciliation of the running operation returned
Reconciled == IF op = "update_stocks" THEN m_stocks ELSE m_prices

TokenOf(result) ==
    IF script = "seller" THEN result.last_id ELSE result.nextPageToken

\* the server's end signal, after the items of the page were accumulated in
\* lst: the counts agree (offset loop), the token is empty (cursor loop)
EndSignalled(result, lst) ==
    IF script = "seller" THEN result.total = Len(lst)
    ELSE result.nextPageToken = ""

\* C20: get_offer_ids requests the first page with the empty token and every
\* later page with the token the page before it returned; it appends the
\* items of every page it fetched, once and in their order; it stops exactly
\* at the server's end signal, and then returns all it accumulated
C20_EnumerationFollowsTokens ==
    [][/\ ListingCall =>
              page = IF listing[pair].asked THEN TokenOf(some_prod) ELSE ""
       /\ (ListingCall /\ ~listing[pair].asked) => product_list = <<>>
       /\ pc = "extend" =>
              /\ product_list' = product_list \o some_prod.items
              /\ (pc' # "get_offer_ids")
                     <=> EndSignalled(some_prod, product_list')
              /\ pc' # "get_offer_ids" =>
                     /\ m_offer_ids' = product_list'
                     /\ listing'[pair].returned
                     /\ listing'[pair].offer_ids = product_list'
      ]_vars

\* an enumeration that fetched a second page with the token of the first and
\* returned the offers of both
C20_Witness ==
    /\ pc \in {"download_stock", "create_stocks"}
    /\ listing[pair].returned
    /\ page # ""
    /\ some_prod.items # <<>>
    /\ Len(some_prod.items) < Len(listing[pair].offer_ids)
    /\ m_offer_ids = listing[pair].offer_ids

\* the batches update_stocks was called with for pair p, in call order
StockBatches(p) ==
    LET Mine(c) == c.pair = p /\ c.op = "update_stocks"
        mine == SelectSeq(calls, Mine)
    IN  [k \in 1..Len(mine) |-> mine[k].batch]

CeilDiv(a, b) == (a + b - 1) \div b

\* main is past the stock loop of the running pair
StockLoopDone ==
    \/ pc \in {"create_prices", "upload_prices"}
    \/ pc = "for_update" /\ op = "update_price"
    \/ pc = "done" /\ script \in {"seller", "market"}

\* C22: while nothing has failed, the stock batches submitted for the running
\* pair, in call order, followed by those not yet reached, make up the stock
\* list in its order; when the loop is done the submitted batches are the
\* whole list, each update once, in ceiling(length / cap) calls
C22_StockBatchesInOrderCoverList ==
    (failed = NoFailure /\ outcome = "") =>
        /\ (pc = "for_update" /\ op = "update_stocks") =>
               Concat(StockBatches(pair)) \o Concat(batches) = m_stocks
        /\ StockLoopDone =>
               /\ Concat(StockBatches(pair)) = m_stocks
               /\ Len(StockBatches(pair))
                      = CeilDiv(Len(m_stocks), stock_cap(script))

\* a failure-free run of market.main whose DBS stock list filled one full
\* batch and a shorter last one
C22_Witness ==
    /\ script = "market"
    /\ FailureFree
    /\ Len(m_stocks) > MarketStockCap
    /\ Len(StockBatches("DBS")) = 2
    /\ Len(StockBatches("DBS")[2]) < MarketStockCap
    /\ StockBatches("FBS") # <<>>

====
